---- MODULE Spec2Model ----
(***************************************************************************)
(* CCPS Safety Beacon harvester: the resumable harvest loop of the two     *)
(* harvester variants (backend/collecter_past.py, tools/collecter_past.py),*)
(* archive discovery, the persisted progress set, the skip log and the     *)
(* remote sink; the start-up of the scripts; the issue page parser; the    *)
(* keyword discovery (tools/fetch_ccps_keyword_map.py) and the keyword     *)
(* mapping pass (tools/apply_ccps_keyword_map.py).                         *)
(***************************************************************************)
EXTENDS Integers, Sequences, FiniteSets, TLC

VARIABLES
    variant,        \* which script is running: "backend" | "tools" (harvesters),
                    \* "keywords" (apply_ccps_keyword_map), "kwfetch"
                    \* (fetch_ccps_keyword_map)
    archive,        \* what the archive site serves (fixed during a behaviour)
    args,           \* parsed command line of the current run
    pc,             \* position of the process
    last_page,      \* discover_english_pages: last page index to visit
    page,           \* discover_english_pages: loop variable
    pages,          \* discover_english_pages: set of kept urls
    year_queue,     \* tools discovery: year pages still to fetch (ascending)
    listFetched,    \* archive listing requests of this run, in order (page index)
    english_pages,  \* discovered list the harvest loop iterates
    i,              \* harvest loop position (1-based index into english_pages)
    item,           \* per-item locals (cleared when the iteration ends: they are
                    \* overwritten before the next read)
    done,           \* backend main: number of items stored in this run
    processed,      \* in-memory progress set
    skipped_pages,  \* tools: in-memory skip list of this run
    stateFile,      \* state.json on disk
    skipLog,        \* logs/skipped.json on disk
    sidecars,       \* tools: downloads/*.json on disk
    table,          \* remote content table (list of rows; a row's id is its
                    \* position)
    storage,        \* remote object storage (set of object paths)
    effects,        \* per-item operations of the current run, with their outcome
    loaded,         \* snapshot taken by load_state() when the run started
    runs,           \* number of runs started
    crashes,        \* number of process terminations so far
    \* ---- start-up
    cred,           \* the datastore credentials are in the environment
    imp,            \* tools: position of the module-level process_past_articles
    importNet,      \* tools: requests issued while the module is loaded
    \* ---- keyword mapping pass
    kpc,            \* position of apply_ccps_keyword_map.main
    kargs,          \* its parsed command line
    mapFile,        \* the --map file
    issues,         \* sorted (and limited) issue keys of the mapping
    keyword_names,  \* sorted distinct keyword names of those issues
    name2id,        \* keyword name -> id, as selected back
    url2id,         \* source_page_url -> article id
    join_rows,      \* the join rows built by the pass
    missing_articles, \* issues without content record
    output,         \* the final line the pass printed
    restCalls,      \* REST calls of the current pass, in order
    ccps_keywords,  \* remote keyword table (list of rows)
    ccps_article_keywords, \* remote join table (list of rows)
    kruns,          \* passes started
    before,         \* snapshot of the remote tables when the pass started
    \* ---- keyword discovery
    fpc,            \* position of build_keyword_to_issues
    keyword_ids,    \* its argument
    kid,            \* index of the keyword id being paged
    fpage,          \* page index of the next request
    fissues,        \* issue urls collected for the keyword
    kid2issues,     \* result: list of <<keyword id, issue urls>> entries
    fetches,        \* page requests issued, one counter per keyword started
    \* ---- issue page parser
    anchors,        \* the anchors of an issue page, in document order
    parsed,         \* the parser has run
    pdf_url_out     \* what extract_pdf_url_from_english_page returned

harvestVars ==
    <<args, pc, last_page, page, pages, year_queue,
      listFetched, english_pages, i, item, done, processed, skipped_pages,
      stateFile, skipLog, sidecars, table, storage, effects, loaded,
      runs, crashes>>
startupVars == <<imp, importNet>>
keywordVars ==
    <<kpc, kargs, mapFile, issues, keyword_names, name2id, url2id, join_rows,
      missing_articles, output, restCalls, ccps_keywords,
      ccps_article_keywords, kruns, before>>
fetchVars == <<fpc, keyword_ids, kid, fpage, fissues, kid2issues, fetches>>
parserVars == <<anchors, parsed, pdf_url_out>>

vars == <<variant, archive, cred, harvestVars, startupVars, keywordVars,
          fetchVars, parserVars>>

\* what no step of main() / run_backfill_and_update() touches: the script that
\* runs, the site, the environment, and the state of the other scripts
site     == <<variant, archive, cred>>
env      == <<site, startupVars, keywordVars, fetchVars, parserVars>>
discVars == <<last_page, page, pages, year_queue, listFetched>>
disk     == <<stateFile, skipLog, sidecars>>
remote   == <<table, storage>>

\* ------------------------------------------------------------------ bounds
MaxListing == 2      \* listing pages the archive serves
MaxLinks   == 2      \* matching links per listing page
MaxRuns    == 2      \* runs of the harvester in one behaviour
MaxCrashes == 1      \* process terminations in one behaviour
MaxIssues  == 2      \* issue keys in the keyword mapping file
MaxKwRuns  == 2      \* keyword mapping passes in one behaviour
MaxKeywordIds == 2   \* keyword ids handed to build_keyword_to_issues
MaxAnchors == 2      \* anchors of an issue page

\* ------------------------------------------------------------- constants
DefaultMinYear == 2001
\* argparse default=None of --limit and --max-pages
NoLimit == -1
\* start year of the module-level process_past_articles(2001, 1, 2025, 12)
PastStartYear == 2001
\* the page cap of build_keyword_to_issues: if page > 50: break
MaxPageIndex == 50
\* chunked(keyword_names, 100), chunked(join_rows, 1000)
KeywordBatch == 100
JoinBatch == 1000

MONTHS == [january |-> 1, february |-> 2, march |-> 3, april |-> 4, may |-> 5,
           june |-> 6, july |-> 7, august |-> 8, september |-> 9,
           october |-> 10, november |-> 11, december |-> 12]

\* Month path segments the model's archive uses; "foo" matches the url shape
\* [a-z]+ but is no month name.
MonthNames == {"january", "april", "foo"}
\* The same names in the order Python compares the strings.
NamesAlphabetical == <<"april", "foo", "january">>
Years == {DefaultMinYear - 1, DefaultMinYear}

\* An english page url .../archives/<year>/<mon>/english, trailing slash stripped.
Links == [year : Years, mon : MonthNames]

\* ---------------------------------------------------------------- helpers
Max(S) == CHOOSE x \in S : \A y \in S : y <= x
Max2(a, b) == IF a >= b THEN a ELSE b
Min2(a, b) == IF a <= b THEN a ELSE b
Range(s) == {s[k] : k \in 1..Len(s)}
\* the empty dict
EmptyMap == [x \in {} |-> 0]

\* parse_year_month_from_english_url: None is modelled as month 0.
parse_year_month_from_english_url(u) ==
    IF u.mon \in DOMAIN MONTHS
    THEN [year |-> u.year, month |-> MONTHS[u.mon]]
    ELSE [year |-> 0, month |-> 0]

HasYm(u) == parse_year_month_from_english_url(u).month # 0

\* sort_key with tuple comparison (year, month).
sort_key(u) == parse_year_month_from_english_url(u)
KeyLess(a, b) == \/ a.year < b.year
                 \/ (a.year = b.year /\ a.month < b.month)

\* (the same sort without reverse=True)
RECURSIVE SortedAsc(_)
SortedAsc(S) ==
    IF S = {} THEN <<>>
    ELSE LET m == CHOOSE x \in S : \A y \in S : ~KeyLess(sort_key(y), sort_key(x))
         IN <<m>> \o SortedAsc(S \ {m})

\* sorted(pages, key=sort_key, reverse=True)
RECURSIVE SortedDesc(_)
SortedDesc(S) ==
    IF S = {} THEN <<>>
    ELSE LET m == CHOOSE x \in S : \A y \in S : ~KeyLess(sort_key(x), sort_key(y))
         IN <<m>> \o SortedDesc(S \ {m})

\* String order of two urls of the shape above: year digits, then month segment.
AlphaRank(n) == CHOOSE k \in 1..Len(NamesAlphabetical) : NamesAlphabetical[k] = n
UrlLess(a, b) == \/ a.year < b.year
                 \/ (a.year = b.year /\ AlphaRank(a.mon) < AlphaRank(b.mon))

\* sorted(pages) of the tools variant: ascending by url string.
RECURSIVE SortedUrls(_)
SortedUrls(S) ==
    IF S = {} THEN <<>>
    ELSE LET m == CHOOSE x \in S : \A y \in S : ~UrlLess(y, x)
         IN <<m>> \o SortedUrls(S \ {m})

RECURSIVE SortedAscInts(_)
SortedAscInts(S) ==
    IF S = {} THEN <<>>
    ELSE LET m == CHOOSE x \in S : \A y \in S : x <= y
         IN <<m>> \o SortedAscInts(S \ {m})

\* extract_english_links_from_archive_page over the page the server returns for
\* ?page=p (a page index the archive does not have carries no links).
ListingLinks(p) ==
    IF p + 1 <= Len(archive.listing) THEN archive.listing[p + 1] ELSE {}

\* years_in_page: years of the links whose month name parses.
YearsInPage(links) == {u.year : u \in {l \in links : HasYm(l)}}

\* links added to pages on one listing page
Kept(links, min_year) == {u \in links : HasYm(u) /\ u.year >= min_year}

\* the break of line 180
CutoffNever(links, min_year) == FALSE
CutoffReached(links, min_year) ==
    /\ YearsInPage(links) # {}
    /\ Max(YearsInPage(links)) < min_year

\* ------------------------------------------------------------------- files
AbsentFile == [kind |-> "absent", processed |-> {}]
Truncated  == [kind |-> "truncated", processed |-> {}]

\* load_state of the backend: an unreadable file yields the empty default.
load_state(f) == IF f.kind = "valid" THEN f.processed ELSE {}

\* save_state: the file is rewritten wholesale with the sorted set.
save_state_batched(f, s) == f
save_state(f, s) == [kind |-> "valid", processed |-> s]

\* append_skipped: read the array (an unreadable file counts as empty), append,
\* rewrite the file.
append_skipped(f, entry) ==
    [kind |-> "valid",
     entries |-> Append(IF f.kind = "valid" THEN f.entries ELSE <<>>, entry)]

NoSkipLog == [kind |-> "absent", entries |-> <<>>]
TruncatedLog == [kind |-> "truncated", entries |-> <<>>]

\* ------------------------------------------------------------- item locals
\* pdf_url is <<>> when no link was found, <<u>> for the pdf linked from page u;
\* pdf is what the downloaded file is: "text", "no_text" or "unparsable".
EmptyItem == [title |-> "", pdf_url |-> <<>>, pdf |-> "", content |-> ""]
NoArgs == [force |-> FALSE, limit |-> NoLimit, min_year |-> DefaultMinYear,
           max_pages |-> NoLimit]
Null == "<NULL>"

\* extract_title_from_english_page(html) or the synthesized fallback
TitleOf(h1) == IF h1 THEN "h1" ELSE "Process Safety Beacon YYYY-MM"

\* extract_pdf_text: what it returns for a downloaded file, or that it raises.
extract_raises(pdf) ==
    [raises |-> pdf = "unparsable", text |-> IF pdf = "text" THEN "text" ELSE ""]
extract_pdf_text(pdf) ==
    [raises |-> FALSE, text |-> IF pdf = "text" THEN "text" ELSE ""]
tools_extract_pdf_text(pdf) ==
    [raises |-> pdf = "unparsable", text |-> IF pdf = "text" THEN "text" ELSE ""]

\* the payload of lines 330-339
Payload(url, it) ==
    [source_page_url |-> url,
     title |-> it.title,
     content |-> IF it.content # "" THEN it.content ELSE Null,
     source_pdf_url |-> it.pdf_url,
     published_year |-> parse_year_month_from_english_url(url).year,
     published_month |-> parse_year_month_from_english_url(url).month]

\* upsert(payload, on_conflict="source_page_url"): merge into the row with the
\* same key, insert otherwise.
upsert_insert(t, payload) == Append(t, payload)
upsert_article(t, payload) ==
    IF \E k \in 1..Len(t) : t[k].source_page_url = payload.source_page_url
    THEN [k \in 1..Len(t) |->
             IF t[k].source_page_url = payload.source_page_url
             THEN payload ELSE t[k]]
    ELSE Append(t, payload)

TableKeys(t) == {t[k].source_page_url : k \in 1..Len(t)}
RowsOf(t, url) == {k \in 1..Len(t) : t[k].source_page_url = url}

\* the skip test of line 291
SkipNever(force, url, proc) == FALSE
SkipIgnoresForce(force, url, proc) == url \in proc
SkipProcessed(force, url, proc) == (~force) /\ (url \in proc)

\* the skip test of tools line 291 (after the page was fetched)
T_SkipProcessed(pdf_url, proc) == pdf_url \in proc

\* the pdf the english page u links to
PdfUrl(u) == [pdf |-> u]

\* --------------------------------------------------------------- archives
PageSets == {ls \in SUBSET Links : Cardinality(ls) <= MaxLinks}
Listings == UNION {[1..n -> PageSets] : n \in 0..MaxListing}
YearSets(y) == {ls \in PageSets : \A l \in ls : l.year = y}
YearPages == UNION {{f \in [D -> PageSets] : \A y \in D : f[y] \in YearSets(y)} :
                    D \in SUBSET Years}

\* archives the paginated discovery of the backend is explored on
BackendArchives ==
    {[listing |-> ls, last |-> lp, yearPages |-> <<>>, h1 |-> {}] :
        ls \in Listings, lp \in 0..(MaxListing - 1)}
\* archives the root-and-year-pages discovery of the tools variant is explored on
ToolsArchives ==
    {[listing |-> ls, last |-> 0, yearPages |-> yp, h1 |-> {}] :
        ls \in {l \in Listings : Len(l) <= 1}, yp \in YearPages}

L(y, m) == [year |-> y, mon |-> m]
\* the archive the harvest loop is explored on; h1 holds the detail pages that
\* carry a heading
HarvestArchive ==
    [listing |-> << {L(DefaultMinYear, "april"), L(DefaultMinYear, "january")},
                    {L(DefaultMinYear - 1, "january")} >>,
     last |-> 1,
     yearPages |-> [y \in {DefaultMinYear} |-> {L(DefaultMinYear, "january")}],
     h1 |-> {L(DefaultMinYear, "april")}]

HarvestArgs ==
    [force : BOOLEAN, limit : {NoLimit}, min_year : {DefaultMinYear},
     max_pages : {NoLimit}]
\* command lines with --limit
LimitArgs ==
    [force : BOOLEAN, limit : {0, 1, 2}, min_year : {DefaultMinYear},
     max_pages : {NoLimit}]
DiscoveryArgs ==
    [force : {FALSE}, limit : {NoLimit}, min_year : Years,
     max_pages : {NoLimit, 0, 1}]

\* ------------------------------------------------- keyword mapping: data
\* an issue key of the mapping file: an english page url, written with or
\* without a trailing slash
IssueKeys ==
    {[url |-> L(DefaultMinYear, "april"), slash |-> FALSE],
     [url |-> L(DefaultMinYear, "april"), slash |-> TRUE],
     [url |-> L(DefaultMinYear, "january"), slash |-> FALSE]}
\* isu.rstrip("/")
rstrip_slash(k) == k.url

\* a keyword name is the list of its comma-free parts: <<"dust", "fire">> is
\* the name "dust,fire"
KeywordNames == {<<"fire">>, <<"dust", "fire">>}
\* the same names in the order Python compares the strings
NamesSorted == << <<"dust", "fire">>, <<"fire">> >>

\* the keyword lists an issue may carry in the mapping file
KwLists ==
    {<<>>, << <<"fire">> >>, << <<"dust", "fire">> >>,
     << <<"fire">>, <<"dust", "fire">> >>, << <<"fire">>, <<"fire">> >>}
Mappings ==
    UNION {[D -> KwLists] :
              D \in {S \in SUBSET IssueKeys : Cardinality(S) <= MaxIssues}}

\* a file json.loads rejects; a json object with its issue2keywords (a file
\* without that key reads as the empty mapping)
Malformed == [kind |-> "malformed", issue2keywords |-> EmptyMap]
JsonMap(m) == [kind |-> "json", issue2keywords |-> m]
MapFiles == {Malformed} \cup {JsonMap(m) : m \in Mappings}

NoKArgs == [dry_run |-> FALSE, limit_issues |-> 0]
KArgs == [dry_run : BOOLEAN, limit_issues : {0, 1}]

NoOutput == [kind |-> "none", joins |-> 0, missing_articles |-> -1]
NoBefore == [completed |-> FALSE, kargs |-> NoKArgs,
             ccps_keywords |-> <<>>, ccps_article_keywords |-> <<>>]

\* string order of two issue keys: by url, the slash-less spelling first
IssueKeyLess(a, b) ==
    \/ UrlLess(a.url, b.url)
    \/ (a.url = b.url /\ ~a.slash /\ b.slash)

\* sorted(issue2keywords.keys())
RECURSIVE SortedIssueKeys(_)
SortedIssueKeys(S) ==
    IF S = {} THEN <<>>
    ELSE LET m == CHOOSE x \in S : \A y \in S : ~IssueKeyLess(y, x)
         IN <<m>> \o SortedIssueKeys(S \ {m})

NameRank(n) == CHOOSE k \in 1..Len(NamesSorted) : NamesSorted[k] = n
\* sorted({k for isu in issues for k in issue2keywords.get(isu, [])})
RECURSIVE SortedNames(_)
SortedNames(S) ==
    IF S = {} THEN <<>>
    ELSE LET m == CHOOSE x \in S : \A y \in S : NameRank(x) <= NameRank(y)
         IN <<m>> \o SortedNames(S \ {m})

\* issues[: n]
Take(sq, n) == SubSeq(sq, 1, Min2(n, Len(sq)))

\* chunked(lst, n)
RECURSIVE chunked(_, _)
chunked(lst, n) ==
    IF lst = <<>> THEN <<>>
    ELSE <<SubSeq(lst, 1, Min2(n, Len(lst)))>> \o
         chunked(SubSeq(lst, n + 1, Len(lst)), n)

\* ------------------------------------------------ issue page parser: data
\* An anchor with an href. Its text, stripped and lowercased, contains "click"
\* and/or "download"; its href ends with ".pdf" ("end"), contains ".pdf"
\* elsewhere ("mid") or not at all ("no"), in lowercase; the href itself
\* contains "beacon" and "english" ("both"), only "beacon", or neither; it is
\* absolute or relative to the issue page.
Texts == {[click |-> TRUE, download |-> TRUE],
          [click |-> FALSE, download |-> TRUE],
          [click |-> FALSE, download |-> FALSE]}
Hrefs == [pdf : {"end", "mid", "no"}, words : {"both", "beacon", "none"},
          abs : BOOLEAN]
Anchors == [text : Texts, href : Hrefs]
Pages == UNION {[1..n -> Anchors] : n \in 0..MaxAnchors}

\* urljoin(english_page_url + "/", href): a relative href lands under the url
\* of the issue page, .../process-safety-beacon/archives/<y>/<m>/english/
urljoin(href) == [under_page |-> ~href.abs, href |-> href]
\* "" of the backend parser, None of the tools parser
NoUrl == [under_page |-> FALSE,
          href |-> [pdf |-> "no", words |-> "none", abs |-> FALSE]]

\* "beacon" in u.lower() and "english" in u.lower()
BeaconEnglish(u) == u.under_page \/ u.href.words = "both"

\* ------------------------------------------------------------------- Init
\* the harvester before its first run
InitHarvester ==
    /\ args = NoArgs
    /\ pc = "idle"
    /\ last_page = 0 /\ page = 0 /\ pages = {} /\ year_queue = <<>>
    /\ listFetched = <<>>
    /\ english_pages = <<>> /\ i = 0 /\ item = EmptyItem /\ done = 0
    /\ processed = {} /\ skipped_pages = <<>>
    /\ skipLog = NoSkipLog /\ sidecars = {}
    /\ storage = {}
    /\ effects = {} /\ loaded = [processed |-> {}, stored |-> {}]
    /\ runs = 0 /\ crashes = 0
    /\ imp = 0 /\ importNet = <<>>

\* the keyword mapping pass before its first run, the remote keyword tables empty
InitKeywordPass ==
    /\ kpc = "idle" /\ kargs = NoKArgs
    /\ issues = <<>> /\ keyword_names = <<>>
    /\ name2id = EmptyMap /\ url2id = EmptyMap
    /\ join_rows = <<>> /\ missing_articles = 0
    /\ output = NoOutput /\ restCalls = <<>>
    /\ ccps_keywords = <<>> /\ ccps_article_keywords = <<>>
    /\ kruns = 0 /\ before = NoBefore

\* build_keyword_to_issues before it is called
InitFetchIdle ==
    /\ fpc = "idle" /\ kid = 0 /\ fpage = 0 /\ fissues = {}
    /\ kid2issues = <<>> /\ fetches = 0

\* the parser before it is called
InitParserIdle == parsed = FALSE /\ pdf_url_out = NoUrl

\* the scripts a specification does not explore stay as they are
OthersIdle ==
    /\ InitKeywordPass /\ mapFile = Malformed
    /\ InitFetchIdle /\ keyword_ids = <<>>
    /\ InitParserIdle /\ anchors = <<>>

InitCommon ==
    /\ variant \in {"backend", "tools"}
    /\ InitHarvester
    /\ stateFile = AbsentFile /\ table = <<>>
    /\ cred = TRUE
    /\ OthersIdle

Init == InitCommon /\ archive = HarvestArchive

InitDiscovery ==
    /\ InitCommon
    /\ \/ variant = "backend" /\ archive \in BackendArchives
       \/ variant = "tools" /\ archive \in ToolsArchives

\* "config_error": the run ended at start-up, before discovery
Stopped == pc \in {"idle", "done", "aborted", "crashed", "config_error"}

\* ------------------------------------------------------------ start of run
\* main() up to the discovery call / run_backfill_and_update() up to it (the
\* tools script takes no arguments). get_supabase raises without credentials;
\* load_state of the tools variant raises on a file that is no json.
StartRun(ArgSet) ==
    /\ Stopped
    /\ runs < MaxRuns
    /\ IF variant = "backend"
       THEN \E a \in ArgSet : args' = a
       ELSE args' = NoArgs
    /\ runs' = runs + 1
    /\ effects' = {}
    /\ listFetched' = <<>>
    /\ loaded' = [processed |-> load_state(stateFile), stored |-> TableKeys(table)]
    /\ processed' = load_state(stateFile)
    /\ pc' = IF \/ variant = "backend" /\ ~cred
                \/ variant = "tools" /\ stateFile.kind = "truncated"
             THEN "config_error" ELSE "discover_first"
    /\ last_page' = 0 /\ page' = 0 /\ pages' = {} /\ year_queue' = <<>>
    /\ english_pages' = <<>> /\ i' = 0 /\ item' = EmptyItem /\ done' = 0
    /\ skipped_pages' = <<>>
    /\ UNCHANGED <<env, disk, remote, crashes>>

\* ---------------------------------------------------- discovery (backend)
\* lines 150-156: the first fetch of the archive root and the page range.
B_DiscoverFirst ==
    /\ variant = "backend" /\ pc = "discover_first"
    /\ listFetched' = Append(listFetched, 0)
    /\ \E ok \in BOOLEAN :
        IF ~ok
        THEN /\ pc' = "aborted"
             /\ UNCHANGED <<last_page, page, pages, english_pages, i>>
        ELSE LET lp == IF args.max_pages = NoLimit THEN archive.last
                       ELSE Min2(archive.last, args.max_pages - 1)
             IN /\ last_page' = lp
                /\ page' = 0 /\ pages' = {}
                /\ IF lp < 0
                   THEN pc' = "loop" /\ english_pages' = <<>> /\ i' = 1
                   ELSE pc' = "discover" /\ UNCHANGED <<english_pages, i>>
    /\ UNCHANGED <<env, args, year_queue, item, done, processed, skipped_pages,
                   disk, remote, effects, loaded, runs, crashes>>

\* lines 158-190: one iteration of the page loop, and the sorted return when the
\* loop ends.
B_DiscoverPage ==
    /\ variant = "backend" /\ pc = "discover"
    /\ listFetched' = Append(listFetched, page)
    /\ \E ok \in BOOLEAN :
        IF ~ok
        THEN /\ pc' = "aborted"
             /\ UNCHANGED <<page, pages, english_pages, i>>
        ELSE LET links == ListingLinks(page)
                 kept  == IF links = {} THEN pages
                          ELSE pages \cup Kept(links, args.min_year)
                 stop  == \/ links = {}
                          \/ CutoffReached(links, args.min_year)
                          \/ page = last_page
             IN /\ pages' = kept
                /\ IF stop
                   THEN /\ pc' = "loop"
                        /\ english_pages' = SortedDesc(kept)
                        /\ i' = 1
                        /\ UNCHANGED page
                   ELSE /\ pc' = "discover"
                        /\ page' = page + 1
                        /\ UNCHANGED <<english_pages, i>>
    /\ UNCHANGED <<env, args, last_page, year_queue, item, done, processed,
                   skipped_pages, disk, remote, effects, loaded, runs, crashes>>

\* ------------------------------------------------------ discovery (tools)
\* tools lines 140-157: the archive root; links of the url shape and year pages.
T_DiscoverRoot ==
    /\ variant = "tools" /\ pc = "discover_first"
    /\ listFetched' = Append(listFetched, 0)
    /\ \E r \in {"ok", "http_error", "exception"} :
        IF r = "exception"
        THEN /\ pc' = "aborted"
             /\ UNCHANGED <<pages, year_queue, english_pages, i>>
        ELSE LET found == IF r = "ok" THEN ListingLinks(0) ELSE {}
                 years == IF r = "ok" THEN DOMAIN archive.yearPages ELSE {}
                 queue == SortedAscInts(years)
             IN /\ pages' = found
                /\ year_queue' = queue
                /\ IF queue = <<>>
                   THEN pc' = "loop" /\ english_pages' = SortedUrls(found) /\ i' = 1
                   ELSE pc' = "discover" /\ UNCHANGED <<english_pages, i>>
    /\ UNCHANGED <<env, args, last_page, page, item, done, processed,
                   skipped_pages, disk, remote, effects, loaded, runs, crashes>>

\* tools lines 159-171: one year page, and the sorted return after the last.
T_DiscoverYear ==
    /\ variant = "tools" /\ pc = "discover"
    /\ year_queue # <<>>
    /\ \E ok \in BOOLEAN :
        LET found == pages \cup
                     (IF ok THEN archive.yearPages[Head(year_queue)] ELSE {})
        IN /\ pages' = found
           /\ year_queue' = Tail(year_queue)
           /\ IF Tail(year_queue) = <<>>
              THEN pc' = "loop" /\ english_pages' = SortedUrls(found) /\ i' = 1
              ELSE pc' = "discover" /\ UNCHANGED <<english_pages, i>>
    /\ UNCHANGED <<env, args, last_page, page, listFetched, item, done, processed,
                   skipped_pages, disk, remote, effects, loaded, runs, crashes>>

Discovery == B_DiscoverFirst \/ B_DiscoverPage \/ T_DiscoverRoot \/ T_DiscoverYear

\* one run of the discovery per behaviour
StartDiscoveryRun == runs = 0 /\ StartRun(DiscoveryArgs)

NextDiscovery == StartDiscoveryRun \/ Discovery
SpecDiscovery == InitDiscovery /\ [][NextDiscovery]_vars

\* ------------------------------------------------- harvest loop (backend)
Cur == english_pages[i]
AtItem == i >= 1 /\ i <= Len(english_pages)
Eff(op, id, ok) == [op |-> op, id |-> id, ok |-> ok]

\* the for loop of line 290 is exhausted: lines 360-361
B_Finish ==
    /\ variant = "backend" /\ pc = "loop" /\ i > Len(english_pages)
    /\ pc' = "done"
    /\ UNCHANGED <<env, args, discVars, english_pages, i, item, done, processed,
                   skipped_pages, disk, remote, effects, loaded, runs, crashes>>

\* lines 291-292: an identifier of the progress set is passed over
B_Skip ==
    /\ variant = "backend" /\ pc = "loop" /\ AtItem
    /\ SkipProcessed(args.force, Cur, processed)
    /\ i' = i + 1
    /\ UNCHANGED <<env, args, pc, discVars, english_pages, item, done, processed,
                   skipped_pages, disk, remote, effects, loaded, runs, crashes>>

\* lines 294-307: a url whose year/month does not parse is logged and passed
\* over; otherwise fetch of the detail page, title and pdf link
B_Fetch ==
    /\ variant = "backend" /\ pc = "loop" /\ AtItem
    /\ ~SkipProcessed(args.force, Cur, processed)
    /\ IF ~HasYm(Cur)
       THEN /\ skipLog' = append_skipped(skipLog, [url |-> Cur, reason |-> "bad_ym"])
            /\ i' = i + 1
            /\ UNCHANGED <<pc, item, effects>>
       ELSE /\ \E r \in {"exception", "no_pdf", "pdf"} :
                /\ effects' = effects \cup {Eff("page", Cur, r # "exception")}
                /\ IF r = "exception"
                   THEN pc' = "except" /\ UNCHANGED item
                   ELSE /\ item' = [title |-> TitleOf(Cur \in archive.h1),
                                    pdf_url |-> IF r = "pdf" THEN <<PdfUrl(Cur)>>
                                                ELSE <<>>,
                                    pdf |-> "", content |-> ""]
                        /\ pc' = IF r = "pdf" THEN "download" ELSE "skip_no_pdf"
            /\ UNCHANGED <<i, skipLog>>
    /\ UNCHANGED <<env, args, discVars, english_pages, done, processed,
                   skipped_pages, stateFile, sidecars, remote, loaded, runs,
                   crashes>>

\* lines 308-309: the skip entry of a page without pdf link
B_SkipNoPdf ==
    /\ variant = "backend" /\ pc = "skip_no_pdf"
    /\ skipLog' = append_skipped(skipLog, [url |-> Cur, reason |-> "no_pdf_url"])
    /\ pc' = "save_no_pdf"
    /\ UNCHANGED <<env, args, discVars, english_pages, i, item, done, processed,
                   skipped_pages, stateFile, sidecars, remote, effects, loaded,
                   runs, crashes>>

\* lines 310-313: the page without pdf link is marked processed and saved
B_SaveNoPdf ==
    /\ variant = "backend" /\ pc = "save_no_pdf"
    /\ processed' = processed \cup {Cur}
    /\ stateFile' = save_state(stateFile, processed \cup {Cur})
    /\ i' = i + 1
    /\ pc' = "loop"
    /\ item' = EmptyItem
    /\ UNCHANGED <<env, args, discVars, english_pages, done, skipped_pages,
                   skipLog, sidecars, remote, effects, loaded, runs, crashes>>

\* line 319: download_pdf raises on any failure
B_Download ==
    /\ variant = "backend" /\ pc = "download"
    /\ \E r \in {"exception", "text", "no_text", "unparsable"} :
        /\ effects' = effects \cup {Eff("pdf", Cur, r # "exception")}
        /\ IF r = "exception"
           THEN pc' = "except" /\ UNCHANGED item
           ELSE pc' = "extract" /\ item' = [item EXCEPT !.pdf = r]
    /\ UNCHANGED <<env, args, discVars, english_pages, i, done, processed,
                   skipped_pages, disk, remote, loaded, runs, crashes>>

\* line 322: text extraction
B_Extract ==
    /\ variant = "backend" /\ pc = "extract"
    /\ effects' = effects \cup {Eff("extract", Cur, item.pdf # "unparsable")}
    /\ LET out == extract_pdf_text(item.pdf)
       IN IF out.raises
          THEN pc' = "except" /\ UNCHANGED item
          ELSE pc' = "upload" /\ item' = [item EXCEPT !.content = out.text]
    /\ UNCHANGED <<env, args, discVars, english_pages, i, done, processed,
                   skipped_pages, disk, remote, loaded, runs, crashes>>

\* lines 326-327: upload of the pdf to object storage
B_Upload ==
    /\ variant = "backend" /\ pc = "upload"
    /\ \E ok \in BOOLEAN :
        /\ effects' = effects \cup {Eff("upload", Cur, ok)}
        /\ IF ok
           THEN /\ pc' = "upsert"
                /\ storage' = storage \cup {parse_year_month_from_english_url(Cur)}
           ELSE pc' = "except" /\ UNCHANGED storage
    /\ UNCHANGED <<env, args, discVars, english_pages, i, item, done, processed,
                   skipped_pages, disk, table, loaded, runs, crashes>>

\* lines 330-340: the record upsert
B_Upsert ==
    /\ variant = "backend" /\ pc = "upsert"
    /\ \E ok \in BOOLEAN :
        /\ effects' = effects \cup {Eff("upsert", Cur, ok)}
        /\ IF ok
           THEN pc' = "save" /\ table' = upsert_article(table, Payload(Cur, item))
           ELSE pc' = "except" /\ UNCHANGED table
    /\ UNCHANGED <<env, args, discVars, english_pages, i, item, done, processed,
                   skipped_pages, disk, storage, loaded, runs, crashes>>

\* the limit test of line 347
LimitReached(limit, n) == limit # NoLimit /\ n >= limit

\* lines 342-349: mark processed, save the state, count, test the limit
B_Save ==
    /\ variant = "backend" /\ pc = "save"
    /\ processed' = processed \cup {Cur}
    /\ stateFile' = save_state(stateFile, processed \cup {Cur})
    /\ done' = done + 1
    /\ IF LimitReached(args.limit, done + 1)
       THEN pc' = "done" /\ UNCHANGED i
       ELSE pc' = "loop" /\ i' = i + 1
    /\ item' = EmptyItem
    /\ UNCHANGED <<env, args, discVars, english_pages, skipped_pages,
                   skipLog, sidecars, remote, effects, loaded, runs, crashes>>

\* lines 353-358: the loop-level handler
B_Except ==
    /\ variant = "backend" /\ pc = "except"
    /\ skipLog' = append_skipped(skipLog, [url |-> Cur, reason |-> "exception"])
    /\ i' = i + 1
    /\ pc' = "loop"
    /\ item' = EmptyItem
    /\ UNCHANGED <<env, args, discVars, english_pages, done, processed,
                   skipped_pages, stateFile, sidecars, remote, effects, loaded,
                   runs, crashes>>

BackendLoop ==
    \/ B_Finish \/ B_Skip \/ B_Fetch \/ B_SkipNoPdf \/ B_SaveNoPdf
    \/ B_Download \/ B_Extract \/ B_Upload \/ B_Upsert \/ B_Save \/ B_Except

\* --------------------------------------------------- harvest loop (tools)
SkipEntry(reason) == [url |-> Cur, reason |-> reason]

\* tools lines 324-328: the loop is exhausted; the skip list is written out
T_Finish ==
    /\ variant = "tools" /\ pc = "loop" /\ i > Len(english_pages)
    /\ skipLog' = [kind |-> "valid", entries |-> skipped_pages]
    /\ pc' = "done"
    /\ UNCHANGED <<env, args, discVars, english_pages, i, item, done, processed,
                   skipped_pages, stateFile, sidecars, remote, effects, loaded,
                   runs, crashes>>

\* tools lines 279-293: fetch of the detail page and pdf link, then the test of
\* the progress set
T_Page ==
    /\ variant = "tools" /\ pc = "loop" /\ AtItem
    /\ \E r \in {"exception", "no_pdf", "pdf"} :
        /\ effects' = effects \cup {Eff("page", Cur, r # "exception")}
        /\ IF r = "exception"
           THEN /\ skipped_pages' =
                       Append(skipped_pages, SkipEntry("page_fetch_or_parse_failed"))
                /\ i' = i + 1
                /\ UNCHANGED <<pc, item>>
           ELSE IF r = "no_pdf"
           THEN /\ skipped_pages' = Append(skipped_pages, SkipEntry("no_pdf_link"))
                /\ i' = i + 1
                /\ UNCHANGED <<pc, item>>
           ELSE IF T_SkipProcessed(PdfUrl(Cur), processed)
           THEN /\ i' = i + 1
                /\ UNCHANGED <<pc, item, skipped_pages>>
           ELSE /\ item' = [title |-> "", pdf_url |-> <<PdfUrl(Cur)>>,
                            pdf |-> "", content |-> ""]
                /\ pc' = "download"
                /\ UNCHANGED <<i, skipped_pages>>
    /\ UNCHANGED <<env, args, discVars, english_pages, done, processed, disk,
                   remote, loaded, runs, crashes>>

\* tools lines 299-302: download_file returns False on a non-200 answer; an
\* exception of the request is not caught by the loop
T_Download ==
    /\ variant = "tools" /\ pc = "download"
    /\ \E r \in {"exception", "non200", "text", "no_text", "unparsable"} :
        /\ effects' = effects \cup {Eff("pdf", Cur, r \notin {"exception", "non200"})}
        /\ IF r = "exception"
           THEN pc' = "aborted" /\ UNCHANGED <<i, item, skipped_pages>>
           ELSE IF r = "non200"
           THEN /\ skipped_pages' = Append(skipped_pages, SkipEntry("pdf_not_found"))
                /\ i' = i + 1
                /\ pc' = "loop"
                /\ item' = EmptyItem
           ELSE /\ pc' = "extract"
                /\ item' = [item EXCEPT !.pdf = r]
                /\ UNCHANGED <<i, skipped_pages>>
    /\ UNCHANGED <<env, args, discVars, english_pages, done, processed, disk,
                   remote, loaded, runs, crashes>>

\* tools lines 304-309: text extraction, guarded by the loop
T_Extract ==
    /\ variant = "tools" /\ pc = "extract"
    /\ effects' = effects \cup
                   {Eff("extract", Cur, ~tools_extract_pdf_text(item.pdf).raises)}
    /\ LET out == tools_extract_pdf_text(item.pdf)
       IN IF out.raises
          THEN /\ skipped_pages' =
                      Append(skipped_pages, SkipEntry("pdf_extract_failed"))
               /\ i' = i + 1
               /\ pc' = "loop"
               /\ item' = EmptyItem
          ELSE /\ pc' = "write_json"
               /\ item' = [item EXCEPT !.content = out.text]
               /\ UNCHANGED <<i, skipped_pages>>
    /\ UNCHANGED <<env, args, discVars, english_pages, done, processed, disk,
                   remote, loaded, runs, crashes>>

\* tools lines 311-315: the json sidecar, one file per pdf name
T_WriteJson ==
    /\ variant = "tools" /\ pc = "write_json"
    /\ sidecars' = {f \in sidecars : f.pdf_url # item.pdf_url} \cup
                   {[pdf_url |-> item.pdf_url, english_page_url |-> Cur,
                     content |-> item.content]}
    /\ effects' = effects \cup {Eff("write_json", Cur, TRUE)}
    /\ pc' = "save"
    /\ UNCHANGED <<env, args, discVars, english_pages, i, item, done, processed,
                   skipped_pages, stateFile, skipLog, remote, loaded, runs,
                   crashes>>

\* tools lines 317-322: mark the pdf url processed and save the state
T_Save ==
    /\ variant = "tools" /\ pc = "save"
    /\ processed' = processed \cup {item.pdf_url[1]}
    /\ stateFile' = save_state(stateFile, processed \cup {item.pdf_url[1]})
    /\ i' = i + 1
    /\ pc' = "loop"
    /\ item' = EmptyItem
    /\ UNCHANGED <<env, args, discVars, english_pages, done, skipped_pages,
                   skipLog, sidecars, remote, effects, loaded, runs, crashes>>

ToolsLoop ==
    T_Finish \/ T_Page \/ T_Download \/ T_Extract \/ T_WriteJson \/ T_Save

\* the backend harvester run with an item limit
InitLimit == Init /\ variant = "backend"
NextLimit ==
    \/ StartRun(LimitArgs)
    \/ B_DiscoverFirst
    \/ B_DiscoverPage
    \/ BackendLoop
SpecLimit == InitLimit /\ [][NextLimit]_vars

\* -------------------------------------------------- process termination
ResetMemory ==
    /\ last_page' = 0 /\ page' = 0 /\ pages' = {} /\ year_queue' = <<>>
    /\ english_pages' = <<>> /\ i' = 0 /\ item' = EmptyItem /\ done' = 0
    /\ processed' = {} /\ skipped_pages' = <<>>

\* the process is killed between two steps: memory is lost, files and the remote
\* store stay as they are
Crash ==
    /\ ~Stopped
    /\ crashes < MaxCrashes
    /\ crashes' = crashes + 1
    /\ pc' = "crashed"
    /\ ResetMemory
    /\ UNCHANGED <<env, args, listFetched, disk, remote, effects, loaded, runs>>

WritesState == pc \in {"save", "save_no_pdf"}
WritesSkipLog ==
    \/ variant = "backend" /\ pc \in {"skip_no_pdf", "except"}
    \/ variant = "tools" /\ pc = "loop" /\ i > Len(english_pages)

\* the process is killed inside write_text: the file was opened for writing
\* (emptied) and is left without its full content
CrashMidWrite ==
    /\ ~Stopped
    /\ crashes < MaxCrashes
    /\ WritesState \/ WritesSkipLog
    /\ crashes' = crashes + 1
    /\ pc' = "crashed"
    /\ ResetMemory
    /\ IF WritesState
       THEN stateFile' = Truncated /\ UNCHANGED skipLog
       ELSE skipLog' = TruncatedLog /\ UNCHANGED stateFile
    /\ UNCHANGED <<env, args, listFetched, sidecars, remote, effects, loaded, runs>>

Next ==
    \/ StartRun(HarvestArgs)
    \/ Discovery
    \/ BackendLoop
    \/ ToolsLoop
    \/ Crash
    \/ CrashMidWrite

Spec == Init /\ [][Next]_vars

\* ----------------------------------------- tools: the module-level pass
\* tools/collecter_past.py calls process_past_articles(2001, 1, 2025, 12) in
\* its module body: the pass runs whenever the module is loaded, before
\* run_backfill_and_update. ImportMonths are the months of that range the
\* model's archive has urls for, in calendar order.
ImportMonths == <<L(PastStartYear, "january"), L(PastStartYear, "april")>>

Req(op, id) == [op |-> op, id |-> id]

\* python starts executing the module body
T_LoadModule ==
    /\ variant = "tools" /\ pc = "idle" /\ imp = 0
    /\ pc' = "import" /\ imp' = 1 /\ importNet' = <<>>
    /\ UNCHANGED <<site, args, discVars, english_pages, i, item, done,
                   processed, skipped_pages, disk, remote, effects, loaded,
                   runs, crashes, keywordVars, fetchVars, parserVars>>

\* process_article(year, month) of one month: page fetch (an HTTP error reads
\* as a page without link, any other failure propagates), pdf download,
\* extraction (which raises on a file it cannot parse) and the json sidecar;
\* nothing here is caught, and the progress set is neither read nor written
T_ProcessArticle ==
    /\ variant = "tools" /\ pc = "import" /\ imp \in 1..Len(ImportMonths)
    /\ LET u == ImportMonths[imp]
       IN \E r \in {"page_exception", "no_pdf", "pdf_exception", "non200",
                    "unparsable", "text", "no_text"} :
           /\ importNet' =
                  IF r \in {"page_exception", "no_pdf"}
                  THEN Append(importNet, Req("page", u))
                  ELSE importNet \o <<Req("page", u), Req("pdf", u)>>
           /\ IF r \in {"page_exception", "pdf_exception", "unparsable"}
              THEN pc' = "aborted" /\ UNCHANGED <<imp, sidecars>>
              ELSE /\ imp' = imp + 1
                   /\ pc' = IF imp = Len(ImportMonths) THEN "idle" ELSE "import"
                   /\ sidecars' =
                          IF r \in {"text", "no_text"}
                          THEN {f \in sidecars : f.pdf_url # <<PdfUrl(u)>>} \cup
                               {[pdf_url |-> <<PdfUrl(u)>>, english_page_url |-> u,
                                 content |-> tools_extract_pdf_text(r).text]}
                          ELSE sidecars
    /\ UNCHANGED <<site, args, discVars, english_pages, i, item, done,
                   processed, skipped_pages, stateFile, skipLog, remote, effects,
                   loaded, runs, crashes, keywordVars, fetchVars, parserVars>>

\* ------------------------------------------------ keyword mapping pass
\* the remote side of POST ccps_keywords?on_conflict=name with
\* resolution=merge-duplicates: a name that has a row keeps it
RECURSIVE upsert_keywords(_, _)
upsert_keywords(t, names) ==
    IF names = <<>> THEN t
    ELSE upsert_keywords(
             IF \E k \in 1..Len(t) : t[k].name = Head(names) THEN t
             ELSE Append(t, [id |-> Len(t) + 1, name |-> Head(names)]),
             Tail(names))

\* GET ccps_keywords?name=in.(<names joined by ",">): the filter is the list
\* of the comma-separated parts, so it selects the rows whose name is one part
select_keywords(t, batch) ==
    LET parts == UNION {Range(n) : n \in Range(batch)}
    IN {r \in Range(t) : Len(r.name) = 1 /\ r.name[1] \in parts}

\* name2id after the loop of lines 119-129
Name2Id(t, names) ==
    LET rows == UNION {select_keywords(t, b) :
                          b \in Range(chunked(names, KeywordBatch))}
    IN [n \in {r.name : r \in rows} |->
           (CHOOSE r \in rows : r.name = n).id]

\* load_all_articles: source_page_url -> id, a later row replacing an earlier
load_all_articles(t) ==
    [u \in TableKeys(t) |-> Max(RowsOf(t, u))]

\* the join rows of one issue (lines 140-150)
RECURSIVE RowsOfIssue(_, _, _)
RowsOfIssue(article_id, kws, n2i) ==
    IF kws = <<>> THEN <<>>
    ELSE (IF Head(kws) \in DOMAIN n2i
          THEN <<[article_id |-> article_id, keyword_id |-> n2i[Head(kws)]]>>
          ELSE <<>>) \o RowsOfIssue(article_id, Tail(kws), n2i)

\* the loop of lines 139-150
RECURSIVE BuildJoinRows(_, _, _, _)
BuildJoinRows(iss, m, u2i, n2i) ==
    IF iss = <<>> THEN <<>>
    ELSE (IF rstrip_slash(Head(iss)) \in DOMAIN u2i
          THEN RowsOfIssue(u2i[rstrip_slash(Head(iss))], m[Head(iss)], n2i)
          ELSE <<>>) \o BuildJoinRows(Tail(iss), m, u2i, n2i)

\* missing_articles after that loop
Missing(iss, u2i) ==
    Cardinality({k \in 1..Len(iss) : rstrip_slash(iss[k]) \notin DOMAIN u2i})

\* the remote side of POST ccps_article_keywords?on_conflict=article_id,
\* keyword_id with resolution=merge-duplicates
insert_joins(t, rows) == t \o rows
RECURSIVE upsert_joins(_, _)
upsert_joins(t, rows) ==
    IF rows = <<>> THEN t
    ELSE upsert_joins(
             IF \E k \in 1..Len(t) : t[k] = Head(rows) THEN t
             ELSE Append(t, Head(rows)),
             Tail(rows))

KStopped == kpc \in {"idle", "done", "failed", "config_error"}

\* main, lines 75-105: arguments, credentials, the mapping file, the issue
\* and keyword lists, and the return of a dry run
K_Start ==
    /\ variant = "keywords" /\ KStopped
    /\ kruns < MaxKwRuns
    /\ kruns' = kruns + 1
    /\ restCalls' = <<>>
    /\ before' = [completed |-> kpc = "done" /\ output.kind \in {"ok", "warn"},
                  kargs |-> kargs,
                  ccps_keywords |-> ccps_keywords,
                  ccps_article_keywords |-> ccps_article_keywords]
    /\ \E a \in KArgs :
        /\ kargs' = a
        /\ LET m    == mapFile.issue2keywords
               all  == SortedIssueKeys(DOMAIN m)
               iss  == IF a.limit_issues > 0 THEN Take(all, a.limit_issues)
                       ELSE all
               kws  == SortedNames(UNION {Range(m[k]) : k \in Range(iss)})
               fatal == (~cred) \/ mapFile.kind = "malformed" \/ DOMAIN m = {}
           IN /\ issues' = IF fatal THEN <<>> ELSE iss
              /\ keyword_names' = IF fatal THEN <<>> ELSE kws
              /\ kpc' = IF fatal THEN "config_error"
                        ELSE IF a.dry_run THEN "done" ELSE "upsert_keywords"
              /\ output' = IF (~fatal) /\ a.dry_run
                           THEN [NoOutput EXCEPT !.kind = "dry"] ELSE NoOutput
    /\ name2id' = EmptyMap /\ url2id' = EmptyMap
    /\ join_rows' = <<>> /\ missing_articles' = 0
    /\ UNCHANGED <<site, harvestVars, startupVars, mapFile, ccps_keywords,
                   ccps_article_keywords, fetchVars, parserVars>>

\* lines 107-115: the keyword upsert
K_UpsertKeywords ==
    /\ variant = "keywords" /\ kpc = "upsert_keywords"
    /\ restCalls' = Append(restCalls, "POST ccps_keywords")
    /\ \E ok \in BOOLEAN :
        IF ok
        THEN /\ ccps_keywords' = upsert_keywords(ccps_keywords, keyword_names)
             /\ kpc' = "select_keywords"
        ELSE kpc' = "failed" /\ UNCHANGED ccps_keywords
    /\ UNCHANGED <<site, harvestVars, startupVars, kargs, mapFile, issues,
                   keyword_names, name2id, url2id, join_rows, missing_articles,
                   output, ccps_article_keywords, kruns, before, fetchVars,
                   parserVars>>

\* lines 117-129: the ids are selected back, one request per batch of names
K_SelectKeywords ==
    /\ variant = "keywords" /\ kpc = "select_keywords"
    /\ LET n == Len(chunked(keyword_names, KeywordBatch))
       IN \E failAt \in 0..n :
           IF failAt = 0
           THEN /\ restCalls' = restCalls \o [k \in 1..n |-> "GET ccps_keywords"]
                /\ name2id' = Name2Id(ccps_keywords, keyword_names)
                /\ kpc' = "load_articles"
           ELSE /\ restCalls' =
                       restCalls \o [k \in 1..failAt |-> "GET ccps_keywords"]
                /\ kpc' = "failed"
                /\ UNCHANGED name2id
    /\ UNCHANGED <<site, harvestVars, startupVars, kargs, mapFile, issues,
                   keyword_names, url2id, join_rows, missing_articles, output,
                   ccps_keywords, ccps_article_keywords, kruns, before,
                   fetchVars, parserVars>>

\* lines 131-133: load_all_articles pages through the content table until a
\* request returns no row
K_LoadArticles ==
    /\ variant = "keywords" /\ kpc = "load_articles"
    /\ \E ok \in BOOLEAN :
        IF ok
        THEN /\ restCalls' =
                    restCalls \o [k \in 1..(IF table = <<>> THEN 1 ELSE 2) |->
                                     "GET ccps_chaser_articles"]
             /\ url2id' = load_all_articles(table)
             /\ kpc' = "build"
        ELSE /\ restCalls' = Append(restCalls, "GET ccps_chaser_articles")
             /\ kpc' = "failed"
             /\ UNCHANGED url2id
    /\ UNCHANGED <<site, harvestVars, startupVars, kargs, mapFile, issues,
                   keyword_names, name2id, join_rows, missing_articles, output,
                   ccps_keywords, ccps_article_keywords, kruns, before,
                   fetchVars, parserVars>>

\* lines 135-154: the join rows, the count of unresolved issues, and the
\* return when there is nothing to insert
K_BuildJoinRows ==
    /\ variant = "keywords" /\ kpc = "build"
    /\ LET rows == BuildJoinRows(issues, mapFile.issue2keywords, url2id, name2id)
       IN /\ join_rows' = rows
          /\ missing_articles' = Missing(issues, url2id)
          /\ IF rows = <<>>
             THEN kpc' = "done" /\ output' = [NoOutput EXCEPT !.kind = "warn"]
             ELSE kpc' = "upsert_joins" /\ UNCHANGED output
    /\ UNCHANGED <<site, harvestVars, startupVars, kargs, mapFile, issues,
                   keyword_names, name2id, url2id, restCalls, ccps_keywords,
                   ccps_article_keywords, kruns, before, fetchVars, parserVars>>

\* lines 156-166: the bulk upsert, one request per batch, and the final report
K_UpsertJoins ==
    /\ variant = "keywords" /\ kpc = "upsert_joins"
    /\ LET batches == chunked(join_rows, JoinBatch)
       IN \E failAt \in 0..Len(batches) :
           LET sent == IF failAt = 0 THEN Len(batches) ELSE failAt
               done_rows == IF failAt = 0 THEN join_rows
                            ELSE SubSeq(join_rows, 1, (failAt - 1) * JoinBatch)
           IN /\ restCalls' =
                     restCalls \o [k \in 1..sent |-> "POST ccps_article_keywords"]
              /\ ccps_article_keywords' =
                     upsert_joins(ccps_article_keywords, done_rows)
              /\ IF failAt = 0
                 THEN /\ kpc' = "done"
                      /\ output' = [kind |-> "ok", joins |-> Len(join_rows),
                                     missing_articles |-> missing_articles]
                 ELSE kpc' = "failed" /\ UNCHANGED output
    /\ UNCHANGED <<site, harvestVars, startupVars, kargs, mapFile, issues,
                   keyword_names, name2id, url2id, join_rows, missing_articles,
                   ccps_keywords, kruns, before, fetchVars, parserVars>>

KeywordPass ==
    \/ K_Start \/ K_UpsertKeywords \/ K_SelectKeywords \/ K_LoadArticles
    \/ K_BuildJoinRows \/ K_UpsertJoins

\* the content tables the pass is explored against
ContentTables ==
    {<<>>,
     <<Payload(L(DefaultMinYear, "april"), EmptyItem)>>,
     <<Payload(L(DefaultMinYear, "april"), EmptyItem),
       Payload(L(DefaultMinYear, "january"), EmptyItem)>>}

InitKeywords ==
    /\ variant = "keywords" /\ archive = HarvestArchive /\ cred = TRUE
    /\ InitHarvester /\ stateFile = AbsentFile
    /\ table \in ContentTables
    /\ InitKeywordPass /\ mapFile \in MapFiles
    /\ InitFetchIdle /\ keyword_ids = <<>>
    /\ InitParserIdle /\ anchors = <<>>

SpecKeywords == InitKeywords /\ [][KeywordPass]_vars

\* ------------------------------------------------ start-up of the scripts
\* one start of a harvester; the tools script gets to run_backfill_and_update
\* once its module body has run
StartupRun ==
    /\ runs = 0
    /\ variant = "tools" => imp > Len(ImportMonths)
    /\ StartRun(HarvestArgs)

InitStartup ==
    /\ variant \in {"backend", "tools", "keywords"}
    /\ archive = HarvestArchive
    /\ cred \in BOOLEAN
    /\ InitHarvester
    /\ stateFile \in {AbsentFile, Truncated} /\ table = <<>>
    /\ InitKeywordPass
    /\ mapFile \in {Malformed, JsonMap(EmptyMap),
                     JsonMap([k \in {[url |-> L(DefaultMinYear, "april"),
                                       slash |-> FALSE]} |-> << <<"fire">> >>])}
    /\ InitFetchIdle /\ keyword_ids = <<>>
    /\ InitParserIdle /\ anchors = <<>>

NextStartup ==
    \/ T_LoadModule
    \/ T_ProcessArticle
    \/ StartupRun
    \/ Discovery
    \/ K_Start
    \/ K_UpsertKeywords

SpecStartup == InitStartup /\ [][NextStartup]_vars

\* ---------------------------------------------------- issue page parser
MinOf(S) == CHOOSE x \in S : \A y \in S : x <= y

\* "download" in txt and "click" in txt (the tools parser also tests
\* "click here to download" in text, which implies both)
ClickDownload(a) == a.text.click /\ a.text.download
ClickDownloadAnchors(as) == {k \in 1..Len(as) : ClickDownload(as[k])}

\* candidates of the backend parser: ".pdf" anywhere in the lowercased href
PdfCandidates(as) == {k \in 1..Len(as) : as[k].href.pdf \in {"end", "mid"}}
\* candidates of the tools parser: the lowercased href ends with ".pdf"
T_PdfCandidates(as) == {k \in 1..Len(as) : as[k].href.pdf = "end"}

\* backend extract_pdf_url_from_english_page
extract_pdf_url_from_english_page(as) ==
    IF ClickDownloadAnchors(as) # {}
    THEN urljoin(as[MinOf(ClickDownloadAnchors(as))].href)
    ELSE IF PdfCandidates(as) # {}
    THEN urljoin(as[MinOf(PdfCandidates(as))].href)
    ELSE NoUrl

\* (the tools parser without the loop of lines 196-199)
tools_first_candidate(as) ==
    IF ClickDownloadAnchors(as) # {}
    THEN urljoin(as[MinOf(ClickDownloadAnchors(as))].href)
    ELSE IF T_PdfCandidates(as) # {}
    THEN urljoin(as[MinOf(T_PdfCandidates(as))].href)
    ELSE NoUrl

\* tools extract_pdf_url_from_english_page, on the page html it fetched
tools_extract_pdf_url_from_english_page(as) ==
    LET preferred == {k \in T_PdfCandidates(as) :
                         BeaconEnglish(urljoin(as[k].href))}
    IN IF ClickDownloadAnchors(as) # {}
       THEN urljoin(as[MinOf(ClickDownloadAnchors(as))].href)
       ELSE IF preferred # {}
       THEN urljoin(as[MinOf(preferred)].href)
       ELSE IF T_PdfCandidates(as) # {}
       THEN urljoin(as[MinOf(T_PdfCandidates(as))].href)
       ELSE NoUrl

\* the parser of the running variant is applied to the page
ParsePage ==
    /\ variant \in {"backend", "tools"} /\ ~parsed
    /\ parsed' = TRUE
    /\ pdf_url_out' = IF variant = "backend"
                      THEN extract_pdf_url_from_english_page(anchors)
                      ELSE tools_extract_pdf_url_from_english_page(anchors)
    /\ UNCHANGED <<site, harvestVars, startupVars, keywordVars, fetchVars,
                   anchors>>

InitParser ==
    /\ variant \in {"backend", "tools"} /\ archive = HarvestArchive
    /\ cred = TRUE
    /\ InitHarvester /\ stateFile = AbsentFile /\ table = <<>>
    /\ InitKeywordPass /\ mapFile = Malformed
    /\ InitFetchIdle /\ keyword_ids = <<>>
    /\ InitParserIdle /\ anchors \in Pages

SpecParser == InitParser /\ [][ParsePage]_vars

\* ---------------------------------------------------- keyword discovery
\* keyword ids are handed over sorted by their number
KeywordIdLists == {SortedAscInts(S) : S \in SUBSET (1..MaxKeywordIds)}
\* the issue urls a result page may list
FetchIssues == {L(DefaultMinYear, "april")}

\* if page > 50: break
PageCapLate(p) == p > MaxPageIndex + 1
PageCapReached(p) == p > MaxPageIndex

\* fetches counts the page requests made for the keyword id at hand
\* build_keyword_to_issues is called: lines 90-93 for the first keyword id, or
\* the return of line 113 when there is none
F_Call ==
    /\ variant = "kwfetch" /\ fpc = "idle"
    /\ kid2issues' = <<>> /\ fpage' = 0 /\ fissues' = {}
    /\ fetches' = 0
    /\ IF keyword_ids = <<>>
       THEN fpc' = "returned" /\ kid' = 0
       ELSE fpc' = "page_loop" /\ kid' = 1
    /\ UNCHANGED <<site, harvestVars, startupVars, keywordVars, keyword_ids,
                   parserVars>>

\* one iteration of the while loop of lines 95-108: the request (which raises
\* on an error status or a timeout), the urls of the page, has_next_page and
\* the page cap; when the loop ends, lines 110-111 and the next keyword id or
\* the return of line 113
F_FetchPage ==
    /\ variant = "kwfetch" /\ fpc = "page_loop"
    /\ fetches' = (IF fpage = 0 THEN 0 ELSE fetches) + 1
    /\ \E r \in {"error", "next", "last"}, urls \in SUBSET FetchIssues :
        IF r = "error"
        THEN /\ fpc' = "raised"
             /\ UNCHANGED <<kid, fpage, fissues, kid2issues>>
        ELSE IF r = "next" /\ ~PageCapReached(fpage + 1)
        THEN /\ fissues' = fissues \cup urls
             /\ fpage' = fpage + 1
             /\ UNCHANGED <<fpc, kid, kid2issues>>
        ELSE /\ kid2issues' =
                    Append(kid2issues, <<keyword_ids[kid], fissues \cup urls>>)
             /\ fissues' = {}
             /\ IF kid = Len(keyword_ids)
                THEN /\ fpc' = "returned" /\ kid' = kid
                     /\ fpage' = IF r = "next" THEN fpage + 1 ELSE fpage
                ELSE fpc' = "page_loop" /\ kid' = kid + 1 /\ fpage' = 0
    /\ UNCHANGED <<site, harvestVars, startupVars, keywordVars, keyword_ids,
                   parserVars>>

NextFetch == F_Call \/ F_FetchPage

InitFetch ==
    /\ variant = "kwfetch" /\ archive = HarvestArchive /\ cred = TRUE
    /\ InitHarvester /\ stateFile = AbsentFile /\ table = <<>>
    /\ InitKeywordPass /\ mapFile = Malformed
    /\ InitFetchIdle /\ keyword_ids \in KeywordIdLists
    /\ InitParserIdle /\ anchors = <<>>

\* every request returns or raises within its timeout and the interpreter
\* then runs the next statement: the loop keeps taking steps while it can
SpecKeywordFetch == InitFetch /\ [][NextFetch]_vars /\ WF_vars(NextFetch)

\* ================================================================= claims
Running == ~Stopped
\* the discovered item a progress-set member X stands for
ItemOf(X) == IF variant = "tools" THEN X.pdf ELSE X
EffectsFor(u) == {e \in effects : e.id = u}
\* identifiers stored (upserted / written as sidecar) so far in this run
StoredThisRun ==
    IF variant = "backend"
    THEN {e.id : e \in {f \in effects : f.op = "upsert" /\ f.ok}}
    ELSE {PdfUrl(e.id) : e \in {f \in effects : f.op = "write_json"}}

\* C1 (as stated): in a run without the force flag no operation at all is issued
\* for an identifier that was in the persisted progress set when the run
\* started, in either variant.
C1_NoRequestAtAll ==
    (~args.force) =>
        \A X \in loaded.processed : EffectsFor(ItemOf(X)) = {}

\* C1 (amended): in a run without the force flag, the backend variant issues no
\* operation at all for an identifier of the progress set loaded at start; the
\* harvest loop of the tools variant, keyed by pdf url, issues nothing but the
\* detail-page fetch for it (no pdf download, no sidecar write).
C1_ResumeSkip ==
    \A X \in loaded.processed :
        /\ (variant = "backend" /\ ~args.force) => EffectsFor(X) = {}
        /\ variant = "tools" => \A e \in EffectsFor(X.pdf) : e.op = "page"

C1_Witness ==
    /\ variant = "backend" /\ ~args.force /\ pc = "done"
    /\ effects # {}
    /\ \E X \in loaded.processed : X \in Range(english_pages)

\* C2 (as stated): every identifier of the persisted progress set has a record
\* in the remote content table.
C2_ProgressImpliesRecord ==
    variant = "backend" => stateFile.processed \subseteq TableKeys(table)

\* C3 (as stated): no failure of a per-item step terminates the run; the run is
\* never aborted once the harvest loop has been entered.
C3_NoItemFailureAborts == ~(pc = "aborted" /\ i >= 1)

\* identifiers that had a record when the run started and were fetched and
\* upserted again in this run
Reprocessed == {x \in loaded.stored : Eff("upsert", x, TRUE) \in effects}

\* C4 (as stated): a run without the force flag that follows a terminated run
\* processes again at most one identifier that already had a remote record.
C4_AtMostOneRedo ==
    (variant = "backend" /\ ~args.force) => Cardinality(Reprocessed) <= 1

C6_UpsertIdempotent ==
    /\ \A u \in TableKeys(table) : Cardinality(RowsOf(table, u)) = 1
    /\ (variant = "backend" /\ pc = "upsert") =>
           LET q == Payload(Cur, item)
           IN upsert_article(upsert_article(table, q), q) = upsert_article(table, q)
    /\ (variant = "backend" /\ pc = "save") =>
           upsert_article(table, Payload(Cur, item)) = table

C6_Witness ==
    /\ variant = "backend"
    /\ \E u \in loaded.stored : [op |-> "upsert", id |-> u, ok |-> TRUE] \in effects
    /\ Len(table) >= 2

C8_StopsOnAnyOldPage ==
    variant = "backend" =>
        \A k \in 1..Len(listFetched) :
            LET links == ListingLinks(listFetched[k])
            IN (links # {} /\ \A l \in links : l.year < args.min_year) =>
                   \A j \in (k + 1)..Len(listFetched) : listFetched[j] <= listFetched[k]

\* C8 (amended): once a fetched listing page yields at least one matching link
\* whose month name is a month, and the years of all such links are below the
\* minimum year, no listing page with a higher index is fetched.
C8_CutoffStop ==
    variant = "backend" =>
        \A k \in 1..Len(listFetched) :
            LET links == {l \in ListingLinks(listFetched[k]) : HasYm(l)}
            IN (links # {} /\ \A l \in links : l.year < args.min_year) =>
                   \A j \in (k + 1)..Len(listFetched) : listFetched[j] <= listFetched[k]

C8_Witness ==
    /\ variant = "backend" /\ pc = "loop"
    /\ Len(listFetched) >= 2
    /\ listFetched[Len(listFetched)] < last_page
    /\ LET links == {l \in ListingLinks(listFetched[Len(listFetched)]) : HasYm(l)}
       IN links # {} /\ \A l \in links : l.year < args.min_year

NoDuplicates(sq) == \A a, b \in 1..Len(sq) : a # b => sq[a] # sq[b]
DescendingByYearMonth(sq) ==
    \A k \in 1..(Len(sq) - 1) : ~KeyLess(sort_key(sq[k]), sort_key(sq[k + 1]))
AscendingByUrl(sq) ==
    \A k \in 1..(Len(sq) - 1) : ~UrlLess(sq[k + 1], sq[k])
Discovered == pc = "loop" /\ i = 1

\* C9 (as stated): the list discovery returns has no duplicate, holds only
\* identifiers whose year is at least the cutoff and whose month name maps to
\* 1..12, and is ordered descending by (year, month).
C9_DiscoveryOutputBoth ==
    Discovered =>
        /\ NoDuplicates(english_pages)
        /\ \A u \in Range(english_pages) :
               u.year >= args.min_year /\ sort_key(u).month \in 1..12
        /\ DescendingByYearMonth(english_pages)

\* C9 (amended): the list the backend discovery returns has no duplicate, holds
\* only identifiers whose year is at least the cutoff and whose month name maps
\* to 1..12, and is ordered descending by (year, month); the list the tools
\* discovery returns has no duplicate and is ordered ascending by url, with no
\* cutoff and no month filter.
C9_DiscoveryOutput ==
    Discovered =>
        IF variant = "backend"
        THEN /\ NoDuplicates(english_pages)
             /\ \A u \in Range(english_pages) :
                    u.year >= args.min_year /\ sort_key(u).month \in 1..12
             /\ DescendingByYearMonth(english_pages)
        ELSE /\ NoDuplicates(english_pages)
             /\ AscendingByUrl(english_pages)
             /\ Range(english_pages) = pages

C9_Witness ==
    /\ Discovered /\ variant = "backend"
    /\ Len(english_pages) >= 2
    /\ Len(archive.listing) = 2
    /\ archive.listing[1] \cap archive.listing[2] # {}
    /\ \E l \in archive.listing[1] : ~HasYm(l)

\* C10 (as stated): when the downloaded pdf cannot be parsed, extraction yields
\* the empty string and the item goes on to the store steps, in either variant.
C10_NeverRaises ==
    [][(pc = "extract" /\ item.pdf = "unparsable" /\ pc' # "crashed") =>
           (pc' \in {"upload", "write_json"} /\ item'.content = "")]_vars

\* C10 (amended): in the backend variant, when the downloaded pdf cannot be
\* parsed, extraction yields the empty string, the item goes on to the upload,
\* and once upload and upsert succeed its record holds null content and its
\* identifier is in the progress set, in memory and on disk; in the tools
\* variant extraction raises, the loop records pdf_extract_failed and moves to
\* the next item without touching the progress set.
C10_Step ==
    /\ (pc = "extract" /\ item.pdf = "unparsable" /\ pc' # "crashed") =>
           IF variant = "backend"
           THEN pc' = "upload" /\ item'.content = ""
           ELSE /\ pc' = "loop" /\ i' = i + 1
                /\ skipped_pages' =
                       Append(skipped_pages, SkipEntry("pdf_extract_failed"))
                /\ UNCHANGED <<processed, stateFile>>
    /\ (variant = "backend" /\ item.pdf = "unparsable" /\ pc = "upsert"
            /\ pc' = "save") =>
           \A k \in RowsOf(table', Cur) : table'[k].content = Null
    /\ (variant = "backend" /\ item.pdf = "unparsable" /\ pc = "save"
            /\ pc' \in {"loop", "done"}) =>
           /\ Cur \in processed'
           /\ Cur \in stateFile'.processed
           /\ Cur \in TableKeys(table')
C10_ExtractionFailure == [][C10_Step]_vars

C10_Witness ==
    /\ variant = "backend" /\ pc = "loop" /\ i >= 2
    /\ Eff("extract", english_pages[i - 1], FALSE) \in effects
    /\ Eff("upsert", english_pages[i - 1], TRUE) \in effects
    /\ english_pages[i - 1] \in stateFile.processed
    /\ \E k \in RowsOf(table, english_pages[i - 1]) : table[k].content = Null

\* no request has left the process since the script was started
NoNetwork ==
    /\ importNet = <<>> /\ listFetched = <<>> /\ effects = {}
    /\ restCalls = <<>>

\* C11 (as stated): in each script, a run that ends with a fatal configuration
\* error (missing credentials, an input file that cannot be read) has issued no
\* network request, and no request is issued before the script's entry point
\* has been called, that is, by loading the script alone.
C11_ConfigErrorsBeforeNetwork ==
    /\ (pc = "config_error" \/ kpc = "config_error") => NoNetwork
    /\ (runs = 0 /\ kruns = 0) => NoNetwork

\* a pass that ran to its end with database writes enabled
PassCompleted == kpc = "done" /\ output.kind \in {"ok", "warn"}

\* C12: the join table never holds a pair twice and the keyword table never
\* holds a name twice; every keyword name of a pass that got past the keyword
\* upsert has a row; and a pass that completes after a completed pass with
\* the same mapping, arguments and content table leaves both tables holding
\* exactly what they held when it started.
C12_KeywordJoinIdempotent ==
    /\ NoDuplicates(ccps_article_keywords)
    /\ \A a, b \in 1..Len(ccps_keywords) :
           a # b => ccps_keywords[a].name # ccps_keywords[b].name
    /\ (kpc \in {"select_keywords", "load_articles", "build", "upsert_joins"}
           \/ PassCompleted) =>
           \A n \in Range(keyword_names) :
               \E k \in 1..Len(ccps_keywords) : ccps_keywords[k].name = n
    /\ (PassCompleted /\ before.completed /\ before.kargs = kargs) =>
           /\ Range(ccps_article_keywords) = Range(before.ccps_article_keywords)
           /\ ccps_keywords = before.ccps_keywords

C12_Witness ==
    /\ PassCompleted /\ before.completed /\ before.kargs = kargs
    /\ output.kind = "ok"
    /\ Len(ccps_article_keywords) >= 2
    /\ Len(ccps_keywords) >= 2

\* issues of the current pass whose url has no content record
Unresolved == {k \in Range(issues) : rstrip_slash(k) \notin TableKeys(table)}

\* C14 (as stated): when a pass completes, the number of issues without
\* content record is in its final report, no join row was built for such an
\* issue, and every other issue has a join row in the join table for each of
\* its keywords that has an id.
C14_UnresolvedCountedAndReported ==
    PassCompleted =>
        /\ output.missing_articles = Cardinality(Unresolved)
        /\ \A r \in Range(join_rows) :
               \E k \in Range(issues) \ Unresolved :
                   url2id[rstrip_slash(k)] = r.article_id
        /\ \A k \in Range(issues) \ Unresolved :
               \A n \in Range(mapFile.issue2keywords[k]) :
                   n \in DOMAIN name2id =>
                       [article_id |-> url2id[rstrip_slash(k)],
                        keyword_id |-> name2id[n]]
                           \in Range(ccps_article_keywords)

\* every entry of the skip log is still there, at its place, after the step
SkipLogKept ==
    \A k \in 1..Len(skipLog.entries) :
        /\ k <= Len(skipLog'.entries)
        /\ skipLog'.entries[k] = skipLog.entries[k]

\* C13 (as stated): no step of a harvester run, in either variant, removes or
\* replaces an entry of the skip log (steps in which the process is killed
\* are left aside).
C13_SkipLogAppendOnly == [][(pc' # "crashed") => SkipLogKept]_vars

\* identifiers the step adds to the in-memory progress set of a running loop
AddedToProgress == IF Running THEN processed' \ processed ELSE {}

\* C15 (as stated): in the backend variant the upsert of an item is issued only
\* after its upload succeeded, an identifier is added to the progress set only
\* after its upload and its upsert succeeded in this run, and the step that
\* adds it persists the set with it.
C15_Step ==
    variant = "backend" =>
        /\ \A e \in effects' \ effects :
               e.op = "upsert" => Eff("upload", e.id, TRUE) \in effects
        /\ \A x \in AddedToProgress :
               /\ Eff("upload", x, TRUE) \in effects
               /\ Eff("upsert", x, TRUE) \in effects
               /\ stateFile'.kind = "valid"
               /\ stateFile'.processed = processed'
C15_StepOrder == [][C15_Step]_vars

\* C16 (as stated): a backend run with an item limit N >= 0 has at no time
\* stored more than N items, and once N items are stored it begins no further
\* upload or upsert.
C16_ItemLimit ==
    (variant = "backend" /\ args.limit # NoLimit) =>
        /\ Cardinality(StoredThisRun) <= args.limit
        /\ (pc \in {"upload", "upsert"}) =>
               Cardinality(StoredThisRun) < args.limit

\* the page indices requested so far
IndicesFetched == Range(listFetched)
NonDecreasing(sq) == \A k \in 1..(Len(sq) - 1) : sq[k] <= sq[k + 1]

\* C17 (as stated): with a page cap N the backend discovery requests at most N
\* distinct listing pages, only at indices 0..N-1 and never above the last
\* index page 0 shows, in ascending order from 0.
C17_PageCap ==
    (variant = "backend" /\ args.max_pages # NoLimit) =>
        /\ Cardinality(IndicesFetched) <= args.max_pages
        /\ \A p \in IndicesFetched :
               p \in 0..(args.max_pages - 1) /\ p <= archive.last
        /\ NonDecreasing(listFetched)
        /\ listFetched # <<>> => listFetched[1] = 0

\* C17 (amended): with a page cap N the backend discovery first requests page 0
\* to read the pagination, whatever N is; the loop then requests the indices
\* 0, 1, ... in order, none above N-1 and none above the last index page 0
\* shows. So page 0 is requested twice when N >= 1, there are at most N+1
\* requests over at most N distinct indices, and with N <= 0 the one request
\* of page 0 is still made.
C17_PageCapAfterRoot ==
    (variant = "backend" /\ args.max_pages # NoLimit) =>
        /\ Len(listFetched) <= Max2(args.max_pages, 0) + 1
        /\ \A k \in 1..Len(listFetched) :
               listFetched[k] = (IF k = 1 THEN 0 ELSE k - 2)
        /\ \A p \in IndicesFetched :
               p <= Max2(args.max_pages - 1, 0) /\ p <= archive.last
        /\ (pc \in {"discover", "loop"}) => listFetched # <<>>

C17_Witness ==
    /\ variant = "backend" /\ args.max_pages = 1 /\ pc = "loop"
    /\ archive.last = 1 /\ Len(archive.listing) = 2
    /\ archive.listing[2] # {}
    /\ listFetched = <<0, 0>>
    /\ english_pages # <<>>

\* C18 (as stated): when the page has no click+download anchor and several
\* PDF candidates, the parser of either variant returns a candidate whose
\* resolved URL contains both "beacon" and "english" if there is one, and the
\* first candidate otherwise.
CandidatesOf(v) ==
    IF v = "backend" THEN PdfCandidates(anchors) ELSE T_PdfCandidates(anchors)
PreferredOf(v) ==
    {k \in CandidatesOf(v) : BeaconEnglish(urljoin(anchors[k].href))}
PrefersBeaconEnglish(v) ==
    (parsed /\ variant = v /\ ClickDownloadAnchors(anchors) = {}
       /\ Cardinality(CandidatesOf(v)) >= 2)
    => IF PreferredOf(v) # {}
       THEN \E k \in PreferredOf(v) : pdf_url_out = urljoin(anchors[k].href)
       ELSE pdf_url_out = urljoin(anchors[MinOf(CandidatesOf(v))].href)
C18_PreferenceInBothVariants ==
    PrefersBeaconEnglish("backend") /\ PrefersBeaconEnglish("tools")

\* C18 (amended): a click+download anchor wins in both variants; without one
\* the tools parser prefers a beacon+english URL among the hrefs ending in
\* ".pdf" and falls back to the first of them, and the backend parser returns
\* the first href containing ".pdf" whatever the other candidates are.
C18_PreferenceInToolsOnly ==
    /\ PrefersBeaconEnglish("tools")
    /\ (parsed /\ variant = "backend" /\ ClickDownloadAnchors(anchors) = {}
          /\ PdfCandidates(anchors) # {})
       => pdf_url_out = urljoin(anchors[MinOf(PdfCandidates(anchors))].href)
    /\ (parsed /\ ClickDownloadAnchors(anchors) # {})
       => pdf_url_out = urljoin(anchors[MinOf(ClickDownloadAnchors(anchors))].href)

\* the tools parser passed over a first candidate for a later preferred one
C18_Witness ==
    /\ parsed /\ variant = "tools" /\ ClickDownloadAnchors(anchors) = {}
    /\ Cardinality(T_PdfCandidates(anchors)) >= 2
    /\ ~BeaconEnglish(urljoin(anchors[MinOf(T_PdfCandidates(anchors))].href))
    /\ BeaconEnglish(pdf_url_out)

\* C19 (as stated): whatever the server answers, the page loop of a keyword
\* makes at most 51 requests (page indices 0..50) and build_keyword_to_issues
\* ends having recorded exactly one entry per keyword id.
PageLoopBounded ==
    /\ fetches <= MaxPageIndex + 1
    /\ fpc = "page_loop" => fpage <= MaxPageIndex
OneEntryPerKeyword ==
    /\ Len(kid2issues) = Len(keyword_ids)
    /\ \A k \in 1..Len(keyword_ids) : kid2issues[k][1] = keyword_ids[k]
C19_AlwaysReturnsAllKeywords ==
    /\ []PageLoopBounded
    /\ <>(fpc = "returned" /\ OneEntryPerKeyword)

\* C19 (amended): the page loop makes at most 51 requests per keyword and the
\* function always ends: it returns exactly one entry per keyword id, or a
\* failed request raises out of it and nothing is returned.
C19_PaginationEnds ==
    /\ []PageLoopBounded
    /\ [](fpc = "returned" => OneEntryPerKeyword)
    /\ <>(fpc \in {"returned", "raised"})

\* a keyword whose every page announced a next page was cut at page 50
C19_Witness ==
    /\ fpc = "returned" /\ Len(keyword_ids) >= 2 /\ OneEntryPerKeyword
    /\ fetches = MaxPageIndex + 1 /\ PageCapReached(fpage)

====
